---- MODULE Spec2Model ----
(***************************************************************************)
(* The feed controller of frontend/src/pages/Feed.tsx (component Feed).    *)
(*                                                                         *)
(* State: the component's useState cells, the pending debounce timers,     *)
(* the page fetches that are suspended at the gateway, and the effects     *)
(* React still has to run for the last committed render.                   *)
(*                                                                         *)
(* Rendering: every handler, timer callback or continuation runs to its    *)
(* end, its state updates are applied together (one commit), and the       *)
(* effects whose dependencies changed run before anything else does        *)
(* (action RunEffects).  A closure reads the values of the render that     *)
(* created it; the values a timer callback captured are stored with the    *)
(* timer.                                                                  *)
(*                                                                         *)
(* The page fetch: Feed.tsx imports the gateway (feedService,              *)
(* ../services/couchdb), whose code is not among the sources; the try      *)
(* block of loadMorePosts builds the page in place of the gateway call.    *)
(* The call is modelled as the specification describes the gateway         *)
(* (sections 4.1 and 5): loadMorePosts suspends at it, and it answers      *)
(* later with a page, possibly empty, or fails.  The items of a page are   *)
(* built as lines 171-182 build them.                                      *)
(***************************************************************************)
EXTENDS Integers, Sequences, FiniteSets, TLC

VARIABLES
    posts,          \* useState<Post[]>([])
    loading,        \* useState<boolean>(false)
    error,          \* useState<string | null>(null)
    hasMore,        \* useState<boolean>(true)
    page,           \* useState<number>(1)
    searchQuery,    \* useState<string>('')
    now,            \* the value Date.now() returns
    fetches,        \* the runs of loadMorePosts suspended at the gateway
    timers,         \* the pending setTimeout(searchPosts, 500) timers
    debounceTimer,  \* the timer id the search effect's cleanup holds
    effects,        \* the effects due for the last committed render
    started,        \* history: page fetches that reached the gateway
    submitted,      \* history: calls of handleCreatePost
    passes          \* history: filter passes since searchQuery last changed

vars == <<posts, loading, error, hasMore, page, searchQuery, now, fetches, timers, debounceTimer, effects, started, submitted,
          passes>>

-----------------------------------------------------------------------------
(* Bounds of the model *)

MaxFetches == 2

MaxSubmits == 1

MaxClock == 1

MaxPasses == 2

-----------------------------------------------------------------------------
(* Values *)

\* The null of useState<string | null>.
NoError == "null"

LoadError == "Failed to load posts. Please try again later."

\* The undefined of an optional field.
Undefined == <<"undefined">>

SampleContent == "This is a sample post content. The database is currently mocked."

SampleTags == <<"sample", "demo">>

\* Array(5): the number of items of a page
PageSize == 5

\* The sizes of the pages the gateway answers with.
PageSizes == {0, PageSize}

\* Math.floor(Math.random() * 100) and Math.floor(Math.random() * 20), per
\* index of the page: one of the draws that can occur.
RandomDraws ==
    { [i \in 0..(PageSize - 1) |-> [likes |-> 99 - i, comments |-> 19 - i]] }

\* `Sample Post ${index + 1}`
SampleTitle(index) == "Sample Post " \o ToString(index + 1)

\* The item loadMorePosts builds for one index of the page.
MockPost(index, rnd) ==
    [ _id       |-> "post_" \o ToString(now) \o "_" \o ToString(index),
      type      |-> "post",
      title     |-> SampleTitle(index),
      content   |-> SampleContent,
      author    |-> "Demo User",
      avatar    |-> "DU",
      timestamp |-> now,
      likes     |-> rnd[index].likes,
      comments  |-> rnd[index].comments,
      tags      |-> SampleTags ]

MockPosts(n, rnd) == [k \in 1..n |-> MockPost(k - 1, rnd)]

\* The drafts the CreatePost dialog submits (CreatePostData).
Drafts ==
    { [title |-> "", content |-> "hi", tags |-> Undefined],
      [title |-> "Demo", content |-> "hi", tags |-> <<"news">>] }

\* The texts typed into the search field.
Queries == {"", " ", "zz"}

\* The tags of the trending topics that can be clicked.
TopicTags == {"demo"}

-----------------------------------------------------------------------------
(* Text *)

UpperCase == "ABCDEFGHIJKLMNOPQRSTUVWXYZ"

LowerCase == "abcdefghijklmnopqrstuvwxyz"

\* The character at place i of s, as a string of length one.
CharAt(s, i) == SubSeq(s, i, i)

\* The lower-case letter of every upper-case letter.
UpperToLower ==
    [c \in {CharAt(UpperCase, i) : i \in 1..Len(UpperCase)} |->
        CharAt(LowerCase, CHOOSE i \in 1..Len(UpperCase) : CharAt(UpperCase, i) = c)]

ToLowerChar(c) == IF c \in DOMAIN UpperToLower THEN UpperToLower[c] ELSE c

\* The characters of s, each replaced by its lower-case letter.
RECURSIVE LowerCased(_)
LowerCased(s) ==
    IF Len(s) = 0 THEN ""
    ELSE LowerCased(SubSeq(s, 1, Len(s) - 1)) \o ToLowerChar(CharAt(s, Len(s)))

\* The texts of the items and of the queries.
Texts ==
    UNION { {d.title, d.content} : d \in Drafts }
    \cup UNION { {d.tags[k] : k \in DOMAIN d.tags} :
                    d \in {e \in Drafts : e.tags # Undefined} }
    \cup { SampleTitle(index) : index \in 0..(PageSize - 1) }
    \cup { SampleContent }
    \cup { SampleTags[k] : k \in DOMAIN SampleTags }
    \cup Queries \cup TopicTags

\* LowerCased, tabulated over Texts.
LowerCasedText == [s \in Texts |-> LowerCased(s)]

\* String.prototype.toLowerCase
toLowerCase(s) == IF s \in Texts THEN LowerCasedText[s] ELSE LowerCased(s)

\* String.prototype.includes
includes(s, q) ==
    \E i \in 1..(Len(s) - Len(q) + 1) : SubSeq(s, i, i + Len(q) - 1) = q

IsWhiteSpace(c) == c = " "

RECURSIVE trimStart(_)
trimStart(s) ==
    IF Len(s) > 0 /\ IsWhiteSpace(CharAt(s, 1))
    THEN trimStart(SubSeq(s, 2, Len(s)))
    ELSE s

RECURSIVE trimEnd(_)
trimEnd(s) ==
    IF Len(s) > 0 /\ IsWhiteSpace(CharAt(s, Len(s)))
    THEN trimEnd(SubSeq(s, 1, Len(s) - 1))
    ELSE s

\* String.prototype.trim
trim(s) == trimEnd(trimStart(s))

\* A string is truthy when it is not empty.
Truthy(s) == Len(s) > 0

-----------------------------------------------------------------------------
(* Initial state: the first render, its effects not yet run *)

Init ==
    /\ posts = <<>>
    /\ loading = FALSE
    /\ error = NoError
    /\ hasMore = TRUE
    /\ page = 1
    /\ searchQuery = ""
    /\ now = 0
    /\ fetches = <<>>
    /\ timers = {}
    /\ debounceTimer = 0
    /\ effects = {"mount", "search"}
    /\ started = 0
    /\ submitted = 0
    /\ passes = 0

-----------------------------------------------------------------------------
(* The state cells a task writes, as a record: the setState calls of one   *)
(* task are applied to it in order and committed together.  postsSet says  *)
(* that setPosts was called: the array it stores is always a new one.      *)

Cells ==
    [ posts |-> posts, loading |-> loading, error |-> error,
      hasMore |-> hasMore, page |-> page, fetches |-> fetches,
      started |-> started, postsSet |-> FALSE ]

\* The guard of loadMorePosts: `if (loading) return`, on the closure's value.
Guarded(closureLoading) == closureLoading

\* Mutant of append: the page is put in front of the sequence.
append_inFront(prevPosts, items) == items \o prevPosts

\* ItemStore.append: [...prevPosts, ...mockPosts]
append(prevPosts, items) == prevPosts \o items

\* Mutant of prepend: the new item is put behind the others.
prepend_atEnd(mockPost, prevPosts) == prevPosts \o <<mockPost>>

\* ItemStore.prepend: [mockPost, ...prevPosts]
prepend(mockPost, prevPosts) == <<mockPost>> \o prevPosts

\* Mutant of PageArrived: the finally block does not run.
PageArrived_withoutFinally(c, items) ==
    [c EXCEPT !.posts = append(c.posts, items),
              !.page = c.page + 1,
              !.hasMore = Len(items) > 0,
              !.postsSet = TRUE]

\* The body of loadMorePosts after the page is there: the three updates of
\* the try block and the finally block.
PageArrived(c, items) ==
    [c EXCEPT !.posts = append(c.posts, items),
              !.page = c.page + 1,
              !.hasMore = Len(items) > 0,
              !.loading = FALSE,
              !.postsSet = TRUE]

\* Mutant of PageFailed: the failure also marks the feed as exhausted.
PageFailed_exhausts(c) ==
    [c EXCEPT !.error = LoadError, !.loading = FALSE, !.hasMore = FALSE]

\* The catch and finally blocks of loadMorePosts.
PageFailed(c) == [c EXCEPT !.error = LoadError, !.loading = FALSE]

\* loadMorePosts up to the place of the gateway call.
Entered(c) ==
    [c EXCEPT !.loading = TRUE, !.error = NoError, !.started = c.started + 1]

\* The gateway call: loadMorePosts suspends until the gateway answers
\* (resume says that searchPosts awaits this run; searchQuery is history:
\* the query of the render whose closure made the call).
Suspended(c, resume) ==
    [c EXCEPT !.fetches = Append(c.fetches, [resume |-> resume,
                                             searchQuery |-> searchQuery])]

\* A call of loadMorePosts from a closure that read `closureLoading`: the
\* cells it can leave.  It returns at the guard, or builds the page in place
\* and runs to its end, or suspends at the gateway.
loadMorePosts(c, closureLoading, resume) ==
    IF Guarded(closureLoading) THEN {c}
    ELSE { PageArrived(Entered(c), MockPosts(PageSize, rnd)) : rnd \in RandomDraws }
         \cup { Suspended(Entered(c), resume) }

\* Mutant of DueEffects: posts is not a dependency of the search effect.
DueEffects_withoutPosts(c, query) ==
    (IF c.loading # loading THEN {"mount", "search"} ELSE {})
    \cup (IF query # searchQuery THEN {"search"} ELSE {})

\* The effects whose dependencies a commit changed: loadMorePosts is a new
\* function when loading changed (useCallback, [loading]); the mount effect
\* depends on loadMorePosts, the search effect on searchQuery, posts and
\* loadMorePosts.
DueEffects(c, query) ==
    (IF c.loading # loading THEN {"mount", "search"} ELSE {})
    \cup (IF c.postsSet \/ query # searchQuery THEN {"search"} ELSE {})

\* One commit: the cells and the query a task leaves become the state.
Commit(c, query) ==
    /\ c.started <= MaxFetches
    /\ posts' = c.posts
    /\ loading' = c.loading
    /\ error' = c.error
    /\ hasMore' = c.hasMore
    /\ page' = c.page
    /\ fetches' = c.fetches
    /\ started' = c.started
    /\ searchQuery' = query
    /\ effects' = DueEffects(c, query)

-----------------------------------------------------------------------------
(* The debounce timer of the search effect *)

\* Mutant of clearTimeout: the cleanup leaves the timer pending.
clearTimeout_forgotten(pending, id) == pending

\* clearTimeout(debounceTimer), the effect's cleanup
clearTimeout(pending, id) == {t \in pending : t.id # id}

\* The id setTimeout returns: one no pending timer has.
FreshId(pending) ==
    CHOOSE n \in 1..(Cardinality(pending) + 1) : \A t \in pending : t.id # n

\* History: the timer the cleanup clears is pending and holds another query
\* than the render's, or itself took the place of such a timer.
Supersedes ==
    \E t \in timers :
        /\ t.id = debounceTimer
        /\ t.searchQuery # searchQuery \/ t.superseding

\* setTimeout(searchPosts, 500): searchPosts closes over the render's
\* searchQuery, posts and loadMorePosts (hence its loading).
setTimeout(pending, id) ==
    pending \cup { [id |-> id, searchQuery |-> searchQuery, posts |-> posts,
                    loading |-> loading, superseding |-> Supersedes] }

\* The timers left after the search effect has run again.
Rearmed == setTimeout(clearTimeout(timers, debounceTimer),
                      FreshId(clearTimeout(timers, debounceTimer)))

-----------------------------------------------------------------------------
(* Actions *)

\* React runs the effects that are due, with the closures of the committed
\* render: the mount effect calls loadMorePosts, the search effect clears
\* its timer and sets a new one.
RunEffects ==
    /\ effects # {}
    /\ \E c \in (IF "mount" \in effects
                 THEN loadMorePosts(Cells, loading, FALSE)
                 ELSE {Cells}) :
          Commit(c, searchQuery)
    /\ IF "search" \in effects
       THEN /\ timers' = Rearmed
            /\ debounceTimer' = FreshId(clearTimeout(timers, debounceTimer))
       ELSE UNCHANGED <<timers, debounceTimer>>
    /\ UNCHANGED <<now, submitted, passes>>

\* Mutant of matches: the tags are not searched.
matches_withoutTags(post, query) ==
    \/ includes(toLowerCase(post.title), toLowerCase(query))
    \/ includes(toLowerCase(post.content), toLowerCase(query))

\* The predicate of the search filter: searchQuery, lower-cased, occurs in
\* the lower-cased title, content or some tag of the post.
matches(post, query) ==
    \/ includes(toLowerCase(post.title), toLowerCase(query))
    \/ includes(toLowerCase(post.content), toLowerCase(query))
    \/ \E k \in DOMAIN post.tags :
          includes(toLowerCase(post.tags[k]), toLowerCase(query))

\* posts.filter(post => ...)
filter(ps, query) == SelectSeq(ps, LAMBDA post : matches(post, query))

\* Mutant of reloads: an empty query reloads whatever is loaded.
reloads_always(ps) == TRUE

\* `else if (posts.length === 0)`: an empty query reloads only an empty list.
reloads(ps) == Len(ps) = 0

\* The finally block of searchPosts, reached unless searchPosts is still
\* suspended at `await loadMorePosts()`.
searchFinally(before, c) ==
    IF Len(c.fetches) > Len(before.fetches) THEN c
    ELSE [c EXCEPT !.loading = FALSE]

\* searchPosts, run by the timer t with the values t captured: the cells it
\* can leave.
searchPostsCells(t) ==
    IF Truthy(trim(t.searchQuery))
    THEN LET c1 == [Cells EXCEPT !.loading = TRUE, !.error = NoError]
         IN  IF Len(t.posts) > 0
             THEN { [c1 EXCEPT !.posts = filter(t.posts, t.searchQuery),
                               !.postsSet = TRUE,
                               !.loading = FALSE] }
             ELSE { searchFinally(c1, c) : c \in loadMorePosts(c1, t.loading, TRUE) }
    ELSE IF reloads(t.posts)
         THEN loadMorePosts(Cells, t.loading, FALSE)
         ELSE {Cells}

\* Whether searchPosts, run by t, takes the filter branch.
FilterPass(t) == Truthy(trim(t.searchQuery)) /\ Len(t.posts) > 0

\* The debounce timer t fires: searchPosts runs.
searchPosts(t) ==
    /\ effects = {}
    /\ t \in timers
    /\ timers' = timers \ {t}
    /\ FilterPass(t) => passes < MaxPasses
    /\ passes' = (IF FilterPass(t) THEN passes + 1 ELSE passes)
    /\ \E c \in searchPostsCells(t) : Commit(c, searchQuery)
    /\ UNCHANGED <<debounceTimer, now, submitted>>

\* The gateway answers the suspended run i of loadMorePosts with a page of
\* n items.  When searchPosts awaited the run its finally block follows.
GatewayResolves(i, n, rnd) ==
    /\ effects = {}
    /\ i \in DOMAIN fetches
    /\ LET rest == [Cells EXCEPT
                      !.fetches = SubSeq(fetches, 1, i - 1)
                                  \o SubSeq(fetches, i + 1, Len(fetches))]
           done == PageArrived(rest, MockPosts(n, rnd))
       IN  Commit(IF fetches[i].resume THEN searchFinally(done, done) ELSE done,
                  searchQuery)
    /\ UNCHANGED <<timers, debounceTimer, now, submitted, passes>>

\* The gateway fails the suspended run i of loadMorePosts.
GatewayRejects(i) ==
    /\ effects = {}
    /\ i \in DOMAIN fetches
    /\ LET rest == [Cells EXCEPT
                      !.fetches = SubSeq(fetches, 1, i - 1)
                                  \o SubSeq(fetches, i + 1, Len(fetches))]
           done == PageFailed(rest)
       IN  Commit(IF fetches[i].resume THEN searchFinally(done, done) ELSE done,
                  searchQuery)
    /\ UNCHANGED <<timers, debounceTimer, now, submitted, passes>>

\* lastPostRef: the observer watches the last post of a render in which
\* loading is false; its callback closes over that render's hasMore and
\* loadMorePosts.
Observing == ~loading /\ posts # <<>>

\* The observer's callback: the viewport signal.
Intersects(isIntersecting) ==
    /\ effects = {}
    /\ Observing
    /\ \E c \in (IF isIntersecting /\ hasMore
                 THEN loadMorePosts(Cells, loading, FALSE)
                 ELSE {Cells}) :
          Commit(c, searchQuery)
    /\ UNCHANGED <<timers, debounceTimer, now, submitted, passes>>

\* The item handleCreatePost builds from the draft.
NewPost(newPost) ==
    [ _id       |-> "post_new_" \o ToString(now),
      type      |-> "post",
      title     |-> newPost.title,
      content   |-> newPost.content,
      author    |-> "Demo User",
      avatar    |-> "DU",
      timestamp |-> now,
      likes     |-> 0,
      comments  |-> 0,
      tags      |-> IF newPost.tags = Undefined THEN <<>> ELSE newPost.tags ]

\* submit(draft).  (Its setCreatePostOpen(false) closes the dialog, which is
\* presentation state and not part of the model.)
handleCreatePost(newPost) ==
    /\ effects = {}
    /\ submitted < MaxSubmits
    /\ Commit([Cells EXCEPT !.posts = prepend(NewPost(newPost), posts),
                            !.postsSet = TRUE],
              searchQuery)
    /\ submitted' = submitted + 1
    /\ UNCHANGED <<timers, debounceTimer, now, passes>>

\* setQuery(value): the search field's onChange
setSearchQuery(value) ==
    /\ effects = {}
    /\ Commit(Cells, value)
    /\ passes' = IF value # searchQuery THEN 0 ELSE passes
    /\ UNCHANGED <<timers, debounceTimer, now, submitted>>

\* selectTopic(tag)
handleTopicClick(tag) == setSearchQuery(tag)

\* Time passes.
Tick ==
    /\ effects = {}
    /\ now < MaxClock
    /\ now' = now + 1
    /\ UNCHANGED <<posts, loading, error, hasMore, page, searchQuery,
                   fetches, timers, debounceTimer, effects,
                   started, submitted, passes>>

Next ==
    \/ RunEffects
    \/ \E t \in timers : searchPosts(t)
    \/ \E i \in DOMAIN fetches, n \in PageSizes, rnd \in RandomDraws :
          GatewayResolves(i, n, rnd)
    \/ \E i \in DOMAIN fetches : GatewayRejects(i)
    \/ \E isIntersecting \in BOOLEAN : Intersects(isIntersecting)
    \/ \E newPost \in Drafts : handleCreatePost(newPost)
    \/ \E value \in Queries : setSearchQuery(value)
    \/ \E tag \in TopicTags : handleTopicClick(tag)
    \/ Tick

Spec == Init /\ [][Next]_vars

\* The gateway answers some suspended run of loadMorePosts.
GatewayAnswers ==
    \E i \in DOMAIN fetches :
        \/ \E n \in PageSizes, rnd \in RandomDraws : GatewayResolves(i, n, rnd)
        \/ GatewayRejects(i)

\* Some pending debounce timer fires.
TimerFires == \E t \in timers : searchPosts(t)

\* Fairness: React runs the effects that are due; the gateway answers every
\* call in the end and a timer that stays pending fires in the end, whatever
\* other events are handled meanwhile.
FairSpec ==
    Spec /\ WF_vars(RunEffects) /\ SF_vars(GatewayAnswers) /\ SF_vars(TimerFires)

-----------------------------------------------------------------------------
(* Properties *)

C4_SupersededNeverRuns ==
    [][ /\ Cardinality(timers') <= 1
        /\ effects' = {} => \A t \in timers' : t.searchQuery = searchQuery'
        /\ \A t \in timers : t.searchQuery # searchQuery => ~searchPosts(t) ]_vars

\* C4, witness: a timer that took the place of a timer with another query is
\* the only one pending, and holds the current query.
C4_Witness ==
    /\ effects = {}
    /\ \E t \in timers : t.superseding /\ t.searchQuery = "demo"
    /\ posts # <<>>

\* C5: after the query has changed, with items loaded, the filter runs
\* exactly once until the query changes again.
C5_OneFilterPassPerQuery == passes <= 1

\* C6: a debounced evaluation of an empty or blank query over a non-empty
\* item sequence changes neither the items, the cursor nor hasMore and
\* starts no fetch.
C6_BlankQueryIsNoOp ==
    [][ \A t \in timers :
          (t.searchQuery \in {"", " "} /\ Len(t.posts) > 0 /\ searchPosts(t))
          => /\ posts' = posts
             /\ page' = page
             /\ hasMore' = hasMore
             /\ started' = started
             /\ fetches' = fetches ]_vars

\* C6, witness: the query is blank, items are loaded, and the debounce timer
\* has fired (none is pending and no effect is due).
C6_Witness ==
    /\ searchQuery = " "
    /\ posts # <<>>
    /\ timers = {}
    /\ effects = {}

\* C7: handleCreatePost with a non-empty title puts the new item, with no
\* likes and no comments, in front of the previous sequence, which follows
\* unchanged.
C7_SubmitPrepends ==
    [][ \A d \in Drafts :
          (handleCreatePost(d) /\ d.title # "")
          => /\ Len(posts') = Len(posts) + 1
             /\ posts'[1].title = d.title
             /\ posts'[1].content = d.content
             /\ posts'[1].likes = 0
             /\ posts'[1].comments = 0
             /\ \A k \in 1..Len(posts) : posts'[k + 1] = posts[k] ]_vars

\* C7, witness: an item was submitted in front of fetched items while a
\* fetch was in flight and a debounce timer pending.
C7_Witness ==
    /\ Len(posts) > 1
    /\ posts[1].title = "Demo"
    /\ posts[1].likes = 0
    /\ posts[2].likes > 0
    /\ Len(fetches) > 0
    /\ timers # {}
    /\ effects = {"search"}

\* C8: handleCreatePost with an empty title leaves the items and the rest
\* of the state unchanged.
C8_EmptyTitleRejected ==
    [][ \A d \in Drafts :
          (handleCreatePost(d) /\ d.title = "")
          => UNCHANGED <<posts, loading, hasMore, page, error, searchQuery>> ]_vars

\* The post carries the tag.
HasTag(post, tag) == \E k \in DOMAIN post.tags : post.tags[k] = tag

\* The two cases of every letter.
LetterPairs ==
    { {CharAt(UpperCase, i), CharAt(LowerCase, i)} : i \in 1..Len(UpperCase) }

\* Two characters are the same letter, whatever their case.
SameLetter(a, b) == a = b \/ {a, b} \in LetterPairs

\* The text q occurs in the text s, whatever the case of the letters.
OccursIn(q, s) ==
    \E i \in 0..(Len(s) - Len(q)) :
        \A j \in 1..Len(q) : SameLetter(CharAt(s, i + j), CharAt(q, j))

\* The text q occurs in the title, the content or a tag of the post.
Mentions(post, q) ==
    \/ OccursIn(q, post.title)
    \/ OccursIn(q, post.content)
    \/ \E k \in DOMAIN post.tags : OccursIn(q, post.tags[k])

\* C9, as stated: a filter pass for a tag that some item carries leaves
\* exactly the items that carry the tag, in their order (stated for
\* sequences whose items all have a title).
C9_ExactlyTheTagged ==
    [][ \A t \in timers :
          ( /\ FilterPass(t)
            /\ \A k \in DOMAIN t.posts : t.posts[k].title # ""
            /\ \E k \in DOMAIN t.posts : HasTag(t.posts[k], t.searchQuery)
            /\ searchPosts(t) )
          => posts' = SelectSeq(t.posts, LAMBDA p : HasTag(p, t.searchQuery)) ]_vars

\* C9, amended: a filter pass for a tag leaves the items that carry the tag
\* together with the items whose title, content or some tag contains the
\* tag's text, whatever the case of the letters, and no others, in the order
\* of the underlying sequence.
C9_TaggedAndMentioning ==
    [][ \A t \in timers :
          ( /\ FilterPass(t)
            /\ \E k \in DOMAIN t.posts : HasTag(t.posts[k], t.searchQuery)
            /\ searchPosts(t) )
          => /\ posts' = SelectSeq(t.posts,
                            LAMBDA p : HasTag(p, t.searchQuery)
                                       \/ Mentions(p, t.searchQuery))
             /\ \A k \in DOMAIN t.posts :
                   HasTag(t.posts[k], t.searchQuery)
                   => \E m \in DOMAIN posts' : posts'[m] = t.posts[k] ]_vars

\* C9, witness: the filter has run for the tag "demo" over five fetched
\* items that carry it and a submitted item that only mentions it in its
\* title: all six were kept.
C9_Witness ==
    /\ searchQuery = "demo"
    /\ passes = 1
    /\ Len(posts) = PageSize + 1
    /\ posts[1].title = "Demo" /\ ~HasTag(posts[1], "demo")
    /\ \A k \in 2..Len(posts) : HasTag(posts[k], "demo")

\* C10: a filter pass leaves the stored item sequence unchanged (stated for
\* sequences whose items all have a title).
C10_FilterDoesNotMutate ==
    [][ \A t \in timers :
          ( /\ FilterPass(t)
            /\ \A k \in DOMAIN t.posts : t.posts[k].title # ""
            /\ searchPosts(t) )
          => posts' = posts ]_vars

\* C11: in every reachable state the items of the sequence have pairwise
\* distinct identifiers.
C11_DistinctIdentifiers ==
    \A i, j \in DOMAIN posts : i # j => posts[i]._id # posts[j]._id

C13_ClearingResets ==
    [][ (searchQuery # "" /\ setSearchQuery(""))
        => /\ posts' = <<>>
           /\ page' = 1
           /\ hasMore' = TRUE ]_vars

C14_Retried ==
    /\ error = NoError
    /\ started = 2
    /\ Len(fetches) = 1
    /\ posts = <<>>
    /\ page = 1

BoundReached == started >= MaxFetches \/ passes >= MaxPasses

IsSubmitted(post) ==
    Len(post._id) >= 9 /\ SubSeq(post._id, 1, 9) = "post_new_"

\* No fetched item is ahead of a submitted one.
SubmittedFirst(ps) ==
    \A i \in 1..(Len(ps) - 1) : IsSubmitted(ps[i + 1]) => IsSubmitted(ps[i])

C20_NothingRearmsItself ==
    [][ /\ \A t \in timers :
              (FilterPass(t) /\ searchPosts(t)) => "search" \notin effects'
        /\ GatewayAnswers => "mount" \notin effects' ]_vars

====
